---- MODULE Spec2Model ----
(***************************************************************************)
(* Model of src/server.js: the in-memory chat server (users, chats and     *)
(* messages Maps) and its socket.io event handlers.  Every handler runs to *)
(* completion on node's single-threaded event loop, so each handler is one *)
(* atomic action.                                                          *)
(*                                                                         *)
(* Strings that are used as identifiers (user ids, chat ids, the client    *)
(* supplied targetUserId) are sequences of character codes: 0 stands for   *)
(* '-' and k >= 1 for the k-th alphanumeric character, which keeps the     *)
(* order of the UTF-16 code units ('-' sorts before every digit and        *)
(* letter).  The JavaScript falsy values null, undefined and '' are all    *)
(* the empty string Null; the code only ever tests them with `!x`, `||`    *)
(* and `!==` against generated ids, where they behave alike.               *)
(*                                                                         *)
(* A handler step leaves in `pre` the state it started from, in `last`     *)
(* the event it handled and in `out` the events it emitted, in order of    *)
(* emission; an emitted event carries in `for` the participant whose loop  *)
(* iteration emitted it.  Deliver then returns to the idle event loop.     *)
(*                                                                         *)
(* Left out: the createdAt fields of users and chats, which are written    *)
(* and never read, and the files of uploadsDir, which no handler reads.    *)
(***************************************************************************)
EXTENDS Integers, Sequences, FiniteSets, TLC

\* ---------------------------------------------------------------- bounds
MaxSockets == 2      \* connections ever accepted by io.on('connection')
MaxNames == 2        \* distinct usernames the clients log in with
MaxChats == 1        \* entries of the chats Map
MaxMsgs == 2         \* messages stored in the messages Map
MaxClock == 0        \* readings of Date.now() are 0..MaxClock
MaxMembers == 1      \* length of the participantIds a client supplies
MaxDirect == 2       \* entries of the chats Map under SpecDirect

NameList == <<"alice", "bob", "carol", "dave">>
Names == {NameList[i] : i \in 1..MaxNames}

Null == <<>>
Dash == 0
Unknown == "Unknown"
\* the preview of a message that has a file and no text
FilePreview == "File"

Sockets == 1..MaxSockets

\* what a client can put in a payload
FilePool == {"", "/uploads/f.png"}
\* the <<text, file>> of a send-message
SendPool == {<<"", "">>, <<"hi", "">>, <<"", "/uploads/f.png">>}
TypingPool == {TRUE, FALSE}
GroupNamePool == {"", "Team"}
\* a string no generateId() call returns
Stranger == <<Dash>>

VARIABLES
    conn,           \* socket id -> "unused" | "open" | "closed"
    currentUserId,  \* socket id -> the closure variable of its connection
    users,          \* the users Map: userId -> record
    userKeys,       \* insertion order of the users Map
    chats,          \* the chats Map: chatId -> record
    chatKeys,       \* insertion order of the chats Map
    messages,       \* the messages Map: chatId -> sequence of messages
    pre,            \* the state that event's handler started from
    last,           \* the inbound event the server has just handled
    out             \* the outbound events that handler emitted, in order

vars == <<conn, currentUserId, users, userKeys, chats, chatKeys, messages,
          pre, last, out>>

registries == <<users, userKeys, chats, chatKeys, messages>>

\* ------------------------------------------------------- pure functions

\* String comparison of Array.prototype.sort(): code units, left to right,
\* a proper prefix sorts first.
LexLess(a, b) ==
    \E i \in 1..Len(b) :
        /\ \A j \in 1..(i - 1) : j <= Len(a) /\ a[j] = b[j]
        /\ (i > Len(a) \/ a[i] < b[i])

\* a faulty getChatId that joins without sorting
getChatIdUnsorted(user1, user2) == user1 \o <<Dash>> \o user2

\* [user1, user2].sort().join('-')
getChatId(user1, user2) ==
    IF LexLess(user2, user1)
    THEN user2 \o <<Dash>> \o user1
    ELSE user1 \o <<Dash>> \o user2

\* generateId(): Date.now().toString(36) + Math.random().toString(36),
\* a fresh alphanumeric string on every call.  Ids are only ever compared
\* with ids of the same Map, so the n-th id of a Map is named by n, from a
\* range of its own: users first, then group chats, then messages.
generateId(n) == <<n + 1>>

\* the number of ids the group chats and the messages have taken
NumGroups == Cardinality({c \in DOMAIN chats : chats[c].type = "group"})
NumMsgs(m) ==
    LET RECURSIVE Sum(_)
        Sum(S) == IF S = {} THEN 0
                  ELSE LET c == CHOOSE x \in S : TRUE
                       IN  Len(m[c]) + Sum(S \ {c})
    IN  Sum(DOMAIN m)

\* Array.prototype.includes
Includes(arr, x) == \E i \in 1..Len(arr) : arr[i] = x

\* a faulty membership test that lets everybody pass
IsParticipantAny(chat, userId) == TRUE

\* chat.participants.includes(currentUserId)
IsParticipant(chat, userId) == Includes(chat.participants, userId)

\* a faulty validation that accepts the empty message
HasContentAlways(text, file) == TRUE

\* the negation of `!text && !file`
HasContent(text, file) == text # "" \/ file # ""

\* a faulty store that puts the new message first
PushFront(chatMessages, message) == <<message>> \o chatMessages

\* chatMessages.push(message)
Push(chatMessages, message) == Append(chatMessages, message)

\* a faulty participant list that leaves the creator out
ParticipantsOnlyGiven(creator, ids) == ids

\* the array literals [currentUserId, targetUserId] of start-chat and
\* [currentUserId, ...participantIds] of create-group
Participants(creator, ids) == <<creator>> \o ids

\* participants.find(p => p !== userId), undefined when there is none
FindOther(arr, userId) ==
    IF \E i \in 1..Len(arr) : arr[i] # userId
    THEN arr[CHOOSE i \in 1..Len(arr) :
                /\ arr[i] # userId
                /\ \A j \in 1..(i - 1) : arr[j] = userId]
    ELSE Null

\* m.get(id)?.username on the users Map m
UsernameOf(m, id) == IF id \in DOMAIN m THEN m[id].username ELSE ""

\* a faulty presence test that takes every registered user for online
OnlineOfRegistered(m, id) == id \in DOMAIN m

\* m.get(id)?.online || false
OnlineOf(m, id) == id \in DOMAIN m /\ m[id].online

\* m.get(chatId) || [] on the messages Map m
MessagesOf(m, chatId) == IF chatId \in DOMAIN m THEN m[chatId] ELSE <<>>

\* a || b on strings
OrElse(a, b) == IF a # "" THEN a ELSE b

\* a faulty broadcast that uses io.emit: every open socket, s included
OtherOpenAll(s) ==
    SelectSeq([i \in 1..MaxSockets |-> i], LAMBDA t : conn[t] = "open")

\* socket.broadcast.emit of socket s goes to
\* the open sockets other than s, in ascending order
OtherOpen(s) ==
    SelectSeq([i \in 1..MaxSockets |-> i],
              LAMBDA t : t # s /\ conn[t] = "open")

\* Map.prototype.set on a function
MapSet(m, k, v) == [x \in DOMAIN m \cup {k} |-> IF x = k THEN v ELSE m[x]]

\* the event loop is between two events
Idle == [op |-> "idle"]

\* what a handler finds when it starts
Snapshot == [conn |-> conn, currentUserId |-> currentUserId,
             users |-> users, userKeys |-> userKeys,
             chats |-> chats, chatKeys |-> chatKeys,
             messages |-> messages]

\* ----------------------------------------------------------------- Init

Init ==
    /\ conn = [s \in Sockets |-> "unused"]
    /\ currentUserId = [s \in Sockets |-> Null]
    /\ users = <<>>
    /\ userKeys = <<>>
    /\ chats = <<>>
    /\ chatKeys = <<>>
    /\ messages = <<>>
    /\ pre = [conn |-> [s \in Sockets |-> "unused"],
              currentUserId |-> [s \in Sockets |-> Null],
              users |-> <<>>, userKeys |-> <<>>, chats |-> <<>>,
              chatKeys |-> <<>>, messages |-> <<>>]
    /\ last = Idle
    /\ out = <<>>

\* -------------------------------------------------------------- actions

\* io.on('connection'): a new socket with currentUserId = null
Connect(s) ==
    /\ last = Idle
    /\ conn[s] = "unused"
    /\ pre' = Snapshot
    /\ \A t \in 1..(s - 1) : conn[t] # "unused"
    /\ conn' = [conn EXCEPT ![s] = "open"]
    /\ last' = [op |-> "connection", sock |-> s]
    /\ out' = <<>>
    /\ UNCHANGED <<currentUserId, registries>>

\* a faulty login that replies an empty chat list
UserChatsNone(m, userId) == <<>>

\* the chat summaries of login-success: chats.entries() in insertion
\* order, restricted to the chats whose participants include userId
UserChats(m, userId) ==
    LET mine == SelectSeq(chatKeys,
                    LAMBDA c : Includes(chats[c].participants, userId))
        Summary(chatId) ==
            LET chat == chats[chatId]
                chatMessages == MessagesOf(messages, chatId)
                otherParticipantId == FindOther(chat.participants, userId)
            IN  [chatId |-> chatId,
                 name |-> OrElse(chat.name,
                            OrElse(UsernameOf(m, otherParticipantId), Unknown)),
                 type |-> chat.type,
                 participants |-> chat.participants,
                 lastMessage |->
                    IF chatMessages = <<>> THEN <<>>
                    ELSE LET lastMessage == chatMessages[Len(chatMessages)]
                         IN <<[text |-> OrElse(lastMessage.text,
                                        IF lastMessage.file # ""
                                        THEN FilePreview ELSE ""),
                               time |-> lastMessage.timestamp]>>,
                 online |-> OnlineOf(m, otherParticipantId),
                 unread |-> 0]
    IN  [i \in 1..Len(mine) |-> Summary(mine[i])]

\* a faulty lookup that never finds the username
FindByNameNever(username) == Null

\* the id of the first user with this username, Null when there is none
FindByName(username) ==
    LET hits == SelectSeq(userKeys, LAMBDA id : users[id].username = username)
    IN  IF hits = <<>> THEN Null ELSE hits[1]

\* socket.on('login')
Login(s, username) ==
    /\ last = Idle
    /\ conn[s] = "open"
    /\ pre' = Snapshot
    /\ LET found == FindByName(username)
           userId == IF found = Null THEN generateId(Len(userKeys))
                     ELSE found
           users2 ==
              IF found = Null
              THEN MapSet(users, userId,
                          [username |-> username, socketId |-> s,
                           online |-> TRUE])
              ELSE [users EXCEPT ![userId].socketId = s,
                                 ![userId].online = TRUE]
           others == OtherOpen(s)
       IN  /\ users' = users2
           /\ userKeys' = IF found = Null THEN Append(userKeys, userId)
                          ELSE userKeys
           /\ currentUserId' = [currentUserId EXCEPT ![s] = userId]
           /\ out' = <<[to |-> s, ev |-> "login-success", userId |-> userId,
                        username |-> username,
                        chats |-> UserChats(users2, userId)]>>
                     \o [i \in 1..Len(others) |->
                            [to |-> others[i], ev |-> "user-online",
                             userId |-> userId, username |-> username]]
    /\ last' = [op |-> "login", sock |-> s, username |-> username]
    /\ UNCHANGED <<conn, chats, chatKeys, messages>>

\* socket.on('get-users')
GetUsers(s) ==
    /\ last = Idle
    /\ conn[s] = "open"
    /\ pre' = Snapshot
    /\ LET others == SelectSeq(userKeys, LAMBDA id : id # currentUserId[s])
       IN  out' = <<[to |-> s, ev |-> "users-list",
                     list |-> [i \in 1..Len(others) |->
                                [userId |-> others[i],
                                 username |-> users[others[i]].username,
                                 online |-> users[others[i]].online]]]>>
    /\ last' = [op |-> "get-users", sock |-> s]
    /\ UNCHANGED <<conn, currentUserId, registries>>

\* socket.on('start-chat')
StartChat(s, targetUserId) ==
    /\ last = Idle
    /\ conn[s] = "open"
    /\ pre' = Snapshot
    /\ last' = [op |-> "start-chat", sock |-> s,
                targetUserId |-> targetUserId]
    /\ IF currentUserId[s] = Null \/ targetUserId = Null
       THEN /\ out' = <<>>
            /\ UNCHANGED <<chats, chatKeys, messages>>
       ELSE LET chatId == getChatId(currentUserId[s], targetUserId)
                create == chatId \notin DOMAIN chats
                messages2 == IF create THEN MapSet(messages, chatId, <<>>)
                             ELSE messages
                participants == Participants(currentUserId[s],
                                             <<targetUserId>>)
            IN  /\ chats' = IF create
                            THEN MapSet(chats, chatId,
                                    [participants |-> participants,
                                     type |-> "private", name |-> "",
                                     createdBy |-> Null])
                            ELSE chats
                /\ chatKeys' = IF create THEN Append(chatKeys, chatId)
                               ELSE chatKeys
                /\ messages' = messages2
                /\ out' =
                     <<[to |-> s, ev |-> "chat-started", chatId |-> chatId,
                        name |-> OrElse(UsernameOf(users, targetUserId),
                                        Unknown),
                        type |-> "private", participants |-> participants,
                        online |-> OnlineOf(users, targetUserId),
                        messages |-> MessagesOf(messages2, chatId)]>>
                     \o (IF OnlineOf(users, targetUserId)
                         THEN <<[to |-> users[targetUserId].socketId,
                                 ev |-> "new-chat", chatId |-> chatId,
                                 name |-> OrElse(UsernameOf(users,
                                            currentUserId[s]), Unknown),
                                 type |-> "private",
                                 participants |-> participants,
                                 online |-> TRUE,
                                 for |-> targetUserId]>>
                         ELSE <<>>)
    /\ UNCHANGED <<conn, currentUserId, users, userKeys>>

\* Date.now(): the wall clock never runs backwards, so a reading is at
\* least every timestamp stored so far
DateNow == {t \in 0..MaxClock : \A c \in DOMAIN messages :
                \A i \in 1..Len(messages[c]) : messages[c][i].timestamp <= t}

\* a faulty delivery test that forgets the online flag
ReachableOffline(arr) == SelectSeq(arr, LAMBDA p : p \in DOMAIN users)

\* the participants of arr that pass the delivery test of the fan-out
\* loops: participant && participant.online && participant.socketId
Reachable(arr) ==
    SelectSeq(arr, LAMBDA p : p \in DOMAIN users /\ users[p].online)

\* socket.on('send-message')
SendMessage(s, chatId, text, file, t) ==
    /\ last = Idle
    /\ conn[s] = "open"
    /\ pre' = Snapshot
    /\ last' = [op |-> "send-message", sock |-> s, chatId |-> chatId,
                text |-> text, file |-> file]
    /\ IF \/ currentUserId[s] = Null \/ chatId = Null
          \/ ~HasContent(text, file)
          \/ chatId \notin DOMAIN chats
          \/ ~IsParticipant(chats[chatId], currentUserId[s])
       THEN /\ out' = <<>>
            /\ UNCHANGED messages
       ELSE LET chat == chats[chatId]
                message == [id |-> generateId(MaxNames + MaxChats
                                                + NumMsgs(messages)),
                            chatId |-> chatId,
                            senderId |-> currentUserId[s],
                            senderName |->
                                OrElse(UsernameOf(users, currentUserId[s]),
                                       Unknown),
                            text |-> text, file |-> file,
                            timestamp |-> t, read |-> FALSE]
                rcpt == Reachable(chat.participants)
            IN  /\ t \in DateNow
                /\ messages' = MapSet(messages, chatId,
                        Push(MessagesOf(messages, chatId), message))
                /\ out' = [i \in 1..Len(rcpt) |->
                            [to |-> users[rcpt[i]].socketId,
                             ev |-> "new-message", chatId |-> chatId,
                             message |-> [id |-> message.id,
                                          text |-> message.text,
                                          file |-> message.file,
                                          senderId |-> message.senderId,
                                          senderName |-> message.senderName,
                                          timestamp |-> message.timestamp,
                                          sent |-> rcpt[i] = currentUserId[s]],
                             for |-> rcpt[i]]]
    /\ UNCHANGED <<conn, currentUserId, users, userKeys, chats, chatKeys>>

\* socket.on('upload-file'): fs.writeFileSync either stores the bytes or
\* throws into the catch block
UploadFile(s, chatId, fileData, ok) ==
    /\ last = Idle
    /\ conn[s] = "open"
    /\ pre' = Snapshot
    /\ last' = [op |-> "upload-file", sock |-> s, chatId |-> chatId,
                fileData |-> fileData]
    /\ IF currentUserId[s] = Null \/ chatId = Null \/ fileData = ""
       THEN out' = <<>>
       ELSE IF ok
       THEN out' = <<[to |-> s, ev |-> "file-uploaded",
                      chatId |-> chatId, file |-> "/uploads/f.png"]>>
       ELSE out' = <<[to |-> s, ev |-> "upload-error"]>>
    /\ UNCHANGED <<conn, currentUserId, registries>>

\* socket.on('typing')
Typing(s, chatId, isTyping) ==
    /\ last = Idle
    /\ conn[s] = "open"
    /\ pre' = Snapshot
    /\ last' = [op |-> "typing", sock |-> s, chatId |-> chatId,
                isTyping |-> isTyping]
    /\ IF currentUserId[s] = Null \/ chatId = Null
          \/ chatId \notin DOMAIN chats
       THEN out' = <<>>
       ELSE LET rcpt == Reachable(SelectSeq(chats[chatId].participants,
                                    LAMBDA p : p # currentUserId[s]))
            IN  out' = [i \in 1..Len(rcpt) |->
                          [to |-> users[rcpt[i]].socketId,
                           ev |-> "user-typing", chatId |-> chatId,
                           userId |-> currentUserId[s],
                           username |-> UsernameOf(users, currentUserId[s]),
                           isTyping |-> isTyping,
                           for |-> rcpt[i]]]
    /\ UNCHANGED <<conn, currentUserId, registries>>

\* socket.on('create-group')
CreateGroup(s, name, participantIds) ==
    /\ last = Idle
    /\ conn[s] = "open"
    /\ pre' = Snapshot
    /\ last' = [op |-> "create-group", sock |-> s, name |-> name,
                participantIds |-> participantIds]
    /\ IF currentUserId[s] = Null \/ name = "" \/ participantIds = <<>>
       THEN /\ out' = <<>>
            /\ UNCHANGED <<chats, chatKeys, messages>>
       ELSE LET chatId == generateId(MaxNames + NumGroups)
                allParticipants == Participants(currentUserId[s],
                                                participantIds)
                rcpt == Reachable(allParticipants)
            IN  /\ chats' = MapSet(chats, chatId,
                                [participants |-> allParticipants,
                                 type |-> "group", name |-> name,
                                 createdBy |-> currentUserId[s]])
                /\ chatKeys' = Append(chatKeys, chatId)
                /\ messages' = MapSet(messages, chatId, <<>>)
                /\ out' = [i \in 1..Len(rcpt) |->
                            [to |-> users[rcpt[i]].socketId,
                             ev |-> "new-chat", chatId |-> chatId,
                             name |-> name, type |-> "group",
                             participants |-> allParticipants,
                             online |-> FALSE,
                             for |-> rcpt[i]]]
    /\ UNCHANGED <<conn, currentUserId, users, userKeys>>

\* socket.on('get-messages')
GetMessages(s, chatId) ==
    /\ last = Idle
    /\ conn[s] = "open"
    /\ pre' = Snapshot
    /\ last' = [op |-> "get-messages", sock |-> s, chatId |-> chatId]
    /\ IF \/ currentUserId[s] = Null \/ chatId = Null
          \/ chatId \notin DOMAIN chats
          \/ ~IsParticipant(chats[chatId], currentUserId[s])
       THEN out' = <<>>
       ELSE LET chatMessages == MessagesOf(messages, chatId)
            IN  out' = <<[to |-> s, ev |-> "messages-loaded",
                          chatId |-> chatId,
                          messages |-> [i \in 1..Len(chatMessages) |->
                            [id |-> chatMessages[i].id,
                             text |-> chatMessages[i].text,
                             file |-> chatMessages[i].file,
                             senderId |-> chatMessages[i].senderId,
                             senderName |-> chatMessages[i].senderName,
                             timestamp |-> chatMessages[i].timestamp,
                             sent |-> chatMessages[i].senderId
                                        = currentUserId[s]]]]>>
    /\ UNCHANGED <<conn, currentUserId, registries>>

\* socket.on('disconnect'): the socket has left every room when it fires.
\* No event reaches the closed socket any more, so its closure variable is
\* garbage from here on; the model clears it.
Disconnect(s) ==
    /\ last = Idle
    /\ conn[s] = "open"
    /\ pre' = Snapshot
    /\ conn' = [conn EXCEPT ![s] = "closed"]
    /\ currentUserId' = [currentUserId EXCEPT ![s] = Null]
    /\ last' = [op |-> "disconnect", sock |-> s]
    /\ IF currentUserId[s] # Null /\ currentUserId[s] \in DOMAIN users
       THEN LET others == OtherOpen(s)
            IN  /\ users' = [users EXCEPT ![currentUserId[s]].online = FALSE]
                /\ out' = [i \in 1..Len(others) |->
                            [to |-> others[i], ev |-> "user-offline",
                             userId |-> currentUserId[s],
                             username |-> users[currentUserId[s]].username]]
       ELSE /\ out' = <<>>
            /\ UNCHANGED users
    /\ UNCHANGED <<userKeys, chats, chatKeys, messages>>

\* The handler has returned and socket.io has written its packets: the
\* event loop takes the next event.
Deliver ==
    /\ last # Idle
    /\ pre' = Snapshot
    /\ last' = Idle
    /\ out' = <<>>
    /\ UNCHANGED <<conn, currentUserId, registries>>

\* ------------------------------------------------- inputs of the clients

\* the ids a client can name: every registered user and a made-up string
KnownIds == DOMAIN users \cup {Stranger}
Targets == KnownIds \cup {Null}
\* the chat ids a client can name: every chat, none, and a made-up string
ChatIdInputs == DOMAIN chats \cup {Null, Stranger}
MemberLists ==
    UNION {[1..n -> KnownIds] : n \in 0..MaxMembers}

\* The payloads tried on each handler.  Every handler tests its chatId
\* before it looks at anything else of the payload, so the other fields
\* vary only with the chat ids that pass that test.
SendInputs ==
    {<<c, p>> \in ChatIdInputs \X SendPool :
        c \in DOMAIN chats \/ p = <<"hi", "">>}
TypingInputs ==
    {<<c, b>> \in ChatIdInputs \X TypingPool : c \in DOMAIN chats \/ b}
UploadInputs ==
    {<<c, d>> \in {Null, Stranger} \X FilePool : c # Null \/ d # ""}
GroupInputs ==
    {<<name, ids>> \in GroupNamePool \X MemberLists :
        name # "" \/ ids = <<Stranger>>}

\* the model stops creating chats and messages at its bounds
WithinBounds ==
    /\ Len(chatKeys') <= MaxChats
    /\ NumMsgs(messages') <= MaxMsgs

Next ==
    \/ \E s \in Sockets : Connect(s)
    \/ \E s \in Sockets, username \in Names : Login(s, username)
    \/ \E s \in Sockets : GetUsers(s)
    \/ \E s \in Sockets, t \in Targets : StartChat(s, t) /\ WithinBounds
    \/ \E s \in Sockets, in \in SendInputs, t \in 0..MaxClock :
          SendMessage(s, in[1], in[2][1], in[2][2], t) /\ WithinBounds
    \/ \E s \in Sockets, in \in UploadInputs, ok \in BOOLEAN :
          UploadFile(s, in[1], in[2], ok)
    \/ \E s \in Sockets, in \in TypingInputs : Typing(s, in[1], in[2])
    \/ \E s \in Sockets, in \in GroupInputs :
          CreateGroup(s, in[1], in[2]) /\ WithinBounds
    \/ \E s \in Sockets, c \in ChatIdInputs : GetMessages(s, c)
    \/ \E s \in Sockets : Disconnect(s)
    \/ Deliver

Spec == Init /\ [][Next]_vars

\* The direct chats alone, with room for more than one of them: logins,
\* start-chat and send-message are the only handlers that decide which
\* direct chats exist and what their logs hold.
DirectBounds ==
    /\ Len(chatKeys') <= MaxDirect
    /\ NumMsgs(messages') <= MaxMsgs

NextDirect ==
    \/ \E s \in Sockets : Connect(s)
    \/ \E s \in Sockets, username \in Names : Login(s, username)
    \/ \E s \in Sockets, t \in Targets : StartChat(s, t) /\ DirectBounds
    \/ \E s \in Sockets, c \in DOMAIN chats, t \in 0..MaxClock :
          SendMessage(s, c, "hi", "", t) /\ DirectBounds
    \/ \E s \in Sockets : Disconnect(s)
    \/ Deliver

SpecDirect == Init /\ [][NextDirect]_vars

\* The direct chats again, with clients that also name targets holding
\* the separator: any two known ids joined by '-'.
DashedTargets == {u \o <<Dash>> \o v : u, v \in DOMAIN users}

NextDashed ==
    \/ \E s \in Sockets : Connect(s)
    \/ \E s \in Sockets, username \in Names : Login(s, username)
    \/ \E s \in Sockets, t \in DOMAIN users \cup DashedTargets :
          StartChat(s, t) /\ DirectBounds
    \/ \E s \in Sockets, c \in DOMAIN chats, t \in 0..MaxClock :
          SendMessage(s, c, "hi", "", t) /\ DirectBounds
    \/ \E s \in Sockets : Disconnect(s)
    \/ Deliver

SpecDashed == Init /\ [][NextDashed]_vars

\* ---------------------------------------------------------------- claims

\* the user id bound to the calling connection when the handler started
Caller == pre.currentUserId[last.sock]

\* the outbound events named ev that the handler emitted
Emitted(ev) == {i \in 1..Len(out) : out[i].ev = ev}

\* the three registries are as the handler found them
RegistriesUntouched ==
    /\ users = pre.users /\ userKeys = pre.userKeys
    /\ chats = pre.chats /\ chatKeys = pre.chatKeys
    /\ messages = pre.messages

\* the handled event names an existing chat the identified caller is no
\* participant of
ByOutsider ==
    /\ Caller # Null
    /\ last.chatId \in DOMAIN pre.chats
    /\ ~Includes(pre.chats[last.chatId].participants, Caller)

\* C1: a send-message or get-messages of an identified user for an
\* existing chat whose participant list does not hold that user changes
\* no registry, pushes no new-message and replies no messages-loaded.
C1_MembershipEnforced ==
    (last.op \in {"send-message", "get-messages"} /\ ByOutsider)
        => /\ RegistriesUntouched
           /\ Emitted("new-message") = {}
           /\ Emitted("messages-loaded") = {}

\* C1 witness: an outsider has sent a message with a text to a chat whose
\* participants are online.
C1_Witness ==
    /\ last.op = "send-message" /\ ByOutsider
    /\ last.text # ""
    /\ \E i \in 1..Len(chats[last.chatId].participants) :
            OnlineOf(users, chats[last.chatId].participants[i])

\* C2: as the specification states it, a typing event of an identified
\* user for an existing chat the user is no participant of pushes no
\* user-typing notification.
C2_TypingMembership ==
    (last.op = "typing" /\ ByOutsider) => Emitted("user-typing") = {}

\* the message an accepted send-message has stored
Accepted == last.op = "send-message" /\ messages # pre.messages
Stored == LET log == messages[last.chatId] IN log[Len(log)]

\* C3: every accepted send-message emits new-message pushes and nothing
\* else; the users addressed are exactly the participants of the chat
\* whose online flag is true, each through the stored socket id; the
\* copy of the sender has sent = TRUE and every other copy sent = FALSE;
\* all copies carry the id, timestamp and text of the stored message.
C3_FanOutScoping ==
    Accepted =>
        LET parts == pre.chats[last.chatId].participants
        IN  /\ \A i \in 1..Len(out) :
                  /\ out[i].ev = "new-message"
                  /\ out[i].chatId = last.chatId
                  /\ Includes(parts, out[i].for)
                  /\ out[i].to = pre.users[out[i].for].socketId
                  /\ out[i].message.sent = (out[i].for = Caller)
                  /\ out[i].message.id = Stored.id
                  /\ out[i].message.timestamp = Stored.timestamp
                  /\ out[i].message.text = Stored.text
                  /\ out[i].message.text = last.text
            /\ {out[i].for : i \in 1..Len(out)}
                  = {u \in DOMAIN pre.users :
                        Includes(parts, u) /\ pre.users[u].online}

\* C3 witness: a message was accepted in a chat of two registered users,
\* one of them offline, while the sender got a copy.
C3_Witness ==
    /\ Accepted
    /\ \E u \in DOMAIN users :
          /\ Includes(chats[last.chatId].participants, u)
          /\ ~users[u].online
    /\ \E i \in 1..Len(out) : out[i].message.sent

\* s is a prefix of t
IsPrefix(s, t) == Len(s) <= Len(t) /\ \A i \in 1..Len(s) : s[i] = t[i]

\* C4: no handler removes, replaces or reorders a stored message: every
\* log the handler found is a prefix of the log it leaves; and the
\* messages-loaded reply to a participant lists the whole log of the
\* chat, in the order the messages were created.
C4_AppendOnlyOrdered ==
    /\ \A c \in DOMAIN pre.messages :
          c \in DOMAIN messages /\ IsPrefix(pre.messages[c], messages[c])
    /\ \A c \in DOMAIN messages :
          \A i, j \in 1..Len(messages[c]) :
              i < j => messages[c][i].id[1] < messages[c][j].id[1]
    /\ (/\ last.op = "get-messages" /\ Caller # Null
        /\ last.chatId \in DOMAIN chats
        /\ Includes(chats[last.chatId].participants, Caller))
        => /\ Len(out) = 1
           /\ out[1].ev = "messages-loaded" /\ out[1].to = last.sock
           /\ Len(out[1].messages) = Len(messages[last.chatId])
           /\ \A i \in 1..Len(out[1].messages) :
                 /\ out[1].messages[i].id = messages[last.chatId][i].id
                 /\ out[1].messages[i].text = messages[last.chatId][i].text

\* C4 witness: a participant has loaded a log of two messages of two
\* different senders.
C4_Witness ==
    /\ last.op = "get-messages"
    /\ Len(out) = 1
    /\ Len(out[1].messages) = 2
    /\ out[1].messages[1].senderId # out[1].messages[2].senderId

\* the set of the elements of a participant list
Range(arr) == {arr[i] : i \in 1..Len(arr)}

\* C5: start-chat between two registered users resolves to one chat id
\* whichever of them calls: no two private chats have the same pair of
\* registered users as participants; the chat-started reply names a chat
\* of exactly the caller and the target; and the call leaves every chat
\* that existed, and its log, as it was (a repeat call adds no chat).
C5_DirectIdempotent ==
    /\ \A c1, c2 \in DOMAIN chats :
          (/\ chats[c1].type = "private" /\ chats[c2].type = "private"
           /\ Range(chats[c1].participants) \subseteq DOMAIN users
           /\ Range(chats[c1].participants) = Range(chats[c2].participants))
          => c1 = c2
    /\ (/\ last.op = "start-chat" /\ Caller # Null
        /\ last.targetUserId \in DOMAIN pre.users)
        => /\ out[1].ev = "chat-started" /\ out[1].to = last.sock
           /\ out[1].chatId \in DOMAIN chats
           /\ Range(chats[out[1].chatId].participants)
                 = {Caller, last.targetUserId}
           /\ chats[out[1].chatId].type = "private"
           /\ \A c \in DOMAIN pre.chats :
                 /\ c \in DOMAIN chats /\ chats[c] = pre.chats[c]
                 /\ messages[c] = pre.messages[c]
           /\ (\E c \in DOMAIN pre.chats :
                 /\ pre.chats[c].type = "private"
                 /\ Range(pre.chats[c].participants)
                       = {Caller, last.targetUserId})
              => chats = pre.chats /\ messages = pre.messages

\* C5 witness: B has called start-chat for A after A had created the chat
\* with B and a message was stored in it.
C5_Witness ==
    /\ last.op = "start-chat" /\ Caller # Null
    /\ last.targetUserId \in DOMAIN users
    /\ last.targetUserId # Caller
    /\ out[1].chatId \in DOMAIN pre.chats
    /\ pre.chats[out[1].chatId].participants
          = <<last.targetUserId, Caller>>
    /\ pre.messages[out[1].chatId] # <<>>
    /\ out[1].messages = pre.messages[out[1].chatId]

\* the handled event is a login with a username the registry already held
Relogin(u) ==
    /\ last.op = "login"
    /\ u \in DOMAIN pre.users
    /\ pre.users[u].username = last.username

\* C6: no two users have the same username; a login with a registered
\* username replies the id of that user, adds no user, sets the user
\* online and stores the calling connection as the user's socket id.
C6_IdentityUnique ==
    /\ \A u, v \in DOMAIN users :
          users[u].username = users[v].username => u = v
    /\ \A u \in DOMAIN pre.users :
          Relogin(u) =>
            /\ DOMAIN users = DOMAIN pre.users /\ userKeys = pre.userKeys
            /\ out[1].ev = "login-success" /\ out[1].to = last.sock
            /\ out[1].userId = u
            /\ users[u].online
            /\ users[u].socketId = last.sock
            /\ users[u].username = last.username
            /\ currentUserId[last.sock] = u

\* C6 witness: a user who had gone offline has logged in again from
\* another connection than the stored one.
C6_Witness ==
    \E u \in DOMAIN pre.users :
        /\ Relogin(u)
        /\ ~pre.users[u].online
        /\ pre.users[u].socketId # last.sock
        /\ pre.conn[pre.users[u].socketId] = "closed"

\* C7: as the specification states it, a login on a connection that is
\* already bound to a user id changes no registry, leaves the binding,
\* and emits neither login-success nor user-online.
C7_LoginOnlyAnonymous ==
    (last.op = "login" /\ Caller # Null)
        => /\ RegistriesUntouched
           /\ currentUserId[last.sock] = Caller
           /\ out = <<>>

\* C8: as the specification states it, every event other than login on
\* a connection with no user id bound changes no registry and emits
\* nothing.
C8_AnonymousNoOp ==
    (/\ last.op \in {"get-users", "start-chat", "send-message",
                     "upload-file", "typing", "create-group",
                     "get-messages", "disconnect"}
     /\ Caller = Null)
        => RegistriesUntouched /\ out = <<>>

\* C9: as the specification states it, the users-list reply to an
\* identified caller holds exactly the registered users that are online
\* and are not the caller.
C9_OnlineUsersOnly ==
    (last.op = "get-users" /\ Caller # Null)
        => /\ Len(out) = 1 /\ out[1].ev = "users-list"
           /\ {out[1].list[i].userId : i \in 1..Len(out[1].list)}
                 = {u \in DOMAIN users : users[u].online /\ u # Caller}

\* C10: a send-message without text and without file stores nothing and
\* pushes no new-message.
C10_EmptyRejected ==
    (last.op = "send-message" /\ last.text = "" /\ last.file = "")
        => messages = pre.messages /\ Emitted("new-message") = {}

\* C10 witness: an online participant of the chat has sent an empty
\* message.
C10_Witness ==
    /\ last.op = "send-message" /\ last.text = "" /\ last.file = ""
    /\ Caller # Null /\ last.chatId \in DOMAIN chats
    /\ Includes(chats[last.chatId].participants, Caller)
    /\ users[Caller].online

\* the chat a create-group or a start-chat has added
Created == DOMAIN chats \ DOMAIN pre.chats

\* the users the handler addressed its pushes named ev to
Addressed(ev) == {out[i].for : i \in Emitted(ev)}

\* the users of list arr whose online flag was true when the handler
\* started
OnlineAmong(arr) ==
    {u \in DOMAIN pre.users : Includes(arr, u) /\ pre.users[u].online}

\* C11: a create-group of an identified caller with an empty name or an
\* empty member list changes no registry and emits nothing; any other
\* create-group of an identified caller adds exactly one chat, of type
\* group, with the given name, createdBy the caller, an empty log and the
\* caller followed by the given ids as participants, leaves every other
\* chat as it was, and emits new-chat pushes only, for that chat, to the
\* stored socket of exactly the participants whose online flag is true.
C11_GroupCreation ==
    (last.op = "create-group" /\ Caller # Null) =>
        IF last.name = "" \/ last.participantIds = <<>>
        THEN RegistriesUntouched /\ out = <<>>
        ELSE /\ Cardinality(Created) = 1
             /\ \A c \in DOMAIN pre.chats :
                   /\ c \in DOMAIN chats /\ chats[c] = pre.chats[c]
                   /\ messages[c] = pre.messages[c]
             /\ users = pre.users
             /\ \A c \in Created :
                   /\ chats[c].type = "group"
                   /\ chats[c].name = last.name
                   /\ chats[c].createdBy = Caller
                   /\ chats[c].participants
                         = <<Caller>> \o last.participantIds
                   /\ messages[c] = <<>>
                   /\ chatKeys = Append(pre.chatKeys, c)
                   /\ \A i \in 1..Len(out) :
                         /\ out[i].ev = "new-chat"
                         /\ out[i].chatId = c
                         /\ out[i].name = last.name
                         /\ out[i].to = pre.users[out[i].for].socketId
                   /\ Addressed("new-chat")
                         = OnlineAmong(chats[c].participants)

\* C11 witness: an online caller has created a group with a registered
\* member who is offline.
C11_Witness ==
    /\ last.op = "create-group" /\ Caller # Null
    /\ Created # {}
    /\ users[Caller].online
    /\ \E u \in DOMAIN users :
          /\ u # Caller /\ ~users[u].online
          /\ last.participantIds = <<u>>

\* the last message of a non-empty log
LastOf(log) == log[Len(log)]

\* C12: a create-group or start-chat pushes no new-chat for a participant
\* whose online flag is false; no handler removes a chat or changes its
\* participants; and the login-success reply of every login lists exactly
\* the chats whose participants include the user logging in, a group
\* under its name, a private chat under the username of the other
\* participant when that one is registered, each with the preview (the
\* text, or the file marker when there is no text) and the timestamp of
\* the last message of its log, or with none when the log is empty.
C12_OfflineDiscovery ==
    /\ last.op \in {"create-group", "start-chat"}
          => \A i \in Emitted("new-chat") : pre.users[out[i].for].online
    /\ \A c \in DOMAIN pre.chats :
          /\ c \in DOMAIN chats
          /\ chats[c].participants = pre.chats[c].participants
    /\ last.op = "login" =>
          LET u == currentUserId[last.sock]
              list == out[1].chats
          IN  /\ out[1].ev = "login-success" /\ out[1].to = last.sock
              /\ out[1].userId = u
              /\ {list[i].chatId : i \in 1..Len(list)}
                    = {c \in DOMAIN chats : u \in Range(chats[c].participants)}
              /\ \A i, j \in 1..Len(list) :
                    list[i].chatId = list[j].chatId => i = j
              /\ \A i \in 1..Len(list) :
                    LET c == list[i].chatId
                        others == Range(chats[c].participants) \ {u}
                    IN  /\ chats[c].type = "group"
                              => list[i].name = chats[c].name
                        /\ (/\ chats[c].type = "private"
                            /\ others \subseteq DOMAIN users)
                              => \A v \in others :
                                    list[i].name = users[v].username
                        /\ (list[i].lastMessage = <<>>)
                              = (messages[c] = <<>>)
                        /\ messages[c] # <<>> =>
                              LET m == LastOf(messages[c])
                                  shown == list[i].lastMessage[1]
                              IN  /\ shown.time = m.timestamp
                                  /\ m.text # "" => shown.text = m.text
                                  /\ (m.text = "" /\ m.file # "")
                                        => shown.text = FilePreview

\* C12 witness: a user who was offline has logged in and the reply lists
\* a chat somebody else created, whose last message somebody else sent.
C12_Witness ==
    /\ last.op = "login"
    /\ \E u \in DOMAIN pre.users :
          /\ Relogin(u) /\ ~pre.users[u].online
          /\ \E i \in 1..Len(out[1].chats) :
                LET c == out[1].chats[i].chatId
                IN  /\ chats[c].participants[1] # u
                    /\ out[1].chats[i].lastMessage # <<>>
                    /\ LastOf(messages[c]).senderId # u

\* C13: a start-chat of an identified caller with a target T emits one
\* chat-started, first and to the caller, that names a chat of the
\* registry and carries the whole log of that chat; besides it at most
\* one event, a new-chat for the same chat addressed to the stored socket
\* of T, which is emitted exactly when T is a registered user whose
\* online flag is true; nothing is addressed to any other socket.
C13_StartChatReply ==
    (last.op = "start-chat" /\ Caller # Null /\ last.targetUserId # Null)
        => LET T == last.targetUserId
           IN  /\ Cardinality(Emitted("chat-started")) = 1
               /\ out[1].ev = "chat-started" /\ out[1].to = last.sock
               /\ out[1].chatId \in DOMAIN chats
               /\ out[1].messages = messages[out[1].chatId]
               /\ Range(out[1].participants) = {Caller, T}
               /\ Len(out) <= 2
               /\ (Len(out) = 2) = (T \in DOMAIN pre.users
                                      /\ pre.users[T].online)
               /\ Len(out) = 2 =>
                     /\ out[2].ev = "new-chat"
                     /\ out[2].chatId = out[1].chatId
                     /\ out[2].for = T
                     /\ out[2].to = pre.users[T].socketId
               /\ users = pre.users /\ currentUserId = pre.currentUserId

\* C13 witness: the caller has opened a chat that holds a message with a
\* registered user who is online on another open connection.
C13_Witness ==
    /\ last.op = "start-chat" /\ Caller # Null
    /\ Len(out) = 2
    /\ out[1].messages # <<>>
    /\ out[2].to # last.sock
    /\ conn[out[2].to] = "open"
    /\ currentUserId[out[2].to] = last.targetUserId

\* the sockets that were open, other than the one of the handled event
Bystanders == {t \in Sockets : t # last.sock /\ pre.conn[t] = "open"}

\* the events named ev go one to each bystander and to nobody else, and
\* name user u
BroadcastOf(ev, u) ==
    /\ {out[i].to : i \in Emitted(ev)} = Bystanders
    /\ Cardinality(Emitted(ev)) = Cardinality(Bystanders)
    /\ \A i \in Emitted(ev) :
          /\ out[i].userId = u
          /\ out[i].username = users[u].username

\* C14: a login sends user-online, naming the user logged in, once to
\* every other open connection and not to its own; a disconnect of a
\* connection bound to a user sets the online flag of that user, and of
\* no other, to false and sends user-offline, naming that user, once to
\* every other open connection and nothing else; a disconnect of a
\* connection bound to no user changes no registry and sends nothing.
C14_Presence ==
    /\ last.op = "login" =>
          /\ BroadcastOf("user-online", currentUserId[last.sock])
          /\ users[currentUserId[last.sock]].online
          /\ \A i \in 1..Len(out) :
                out[i].to = last.sock => out[i].ev = "login-success"
    /\ (last.op = "disconnect" /\ Caller # Null) =>
          /\ ~users[Caller].online
          /\ \A u \in DOMAIN users \ {Caller} : users[u] = pre.users[u]
          /\ DOMAIN users = DOMAIN pre.users
          /\ BroadcastOf("user-offline", Caller)
          /\ \A i \in 1..Len(out) : out[i].ev = "user-offline"
    /\ (last.op = "disconnect" /\ Caller = Null) =>
          RegistriesUntouched /\ out = <<>>

\* C14 witness: a connection bound to an online user has disconnected
\* while another connection, bound to another user, was open.
C14_Witness ==
    /\ last.op = "disconnect" /\ Caller # Null
    /\ pre.users[Caller].online
    /\ \E t \in Bystanders :
          pre.currentUserId[t] # Null /\ pre.currentUserId[t] # Caller

\* C15: every message stored under chat id c carries chatId = c, c is a
\* key of the chats Map, and the senderId of the message is one of the
\* participants of chat c.
C15_MessageLogReferential ==
    \A c \in DOMAIN messages :
        /\ c \in DOMAIN chats
        /\ \A i \in 1..Len(messages[c]) :
              /\ messages[c][i].chatId = c
              /\ Includes(chats[c].participants, messages[c][i].senderId)

\* C15 witness: a log holds a message while a registered user who is no
\* participant of its chat has just tried to send to it.
C15_Witness ==
    /\ last.op = "send-message" /\ ByOutsider
    /\ HasContent(last.text, last.file)
    /\ messages[last.chatId] # <<>>

\* C16: as the specification states it, every id in the participant list
\* of every chat is the id of a user of the users Map.
C16_ParticipantsExist ==
    \A c \in DOMAIN chats : Range(chats[c].participants) \subseteq DOMAIN users

\* C16, amended: the first id in the participant list of every chat, the
\* creator's, is the id of a user of the users Map, and no user is ever
\* removed; the ids after it are the targetUserId of the start-chat or
\* the participantIds of the create-group that created the chat, stored
\* as the client gave them.
C16_CreatorRegistered ==
    /\ \A c \in DOMAIN chats :
          /\ chats[c].participants # <<>>
          /\ chats[c].participants[1] \in DOMAIN users
    /\ DOMAIN pre.users \subseteq DOMAIN users
    /\ \A c \in Created :
          /\ last.op \in {"start-chat", "create-group"}
          /\ chats[c].participants[1] = Caller
          /\ last.op = "start-chat" =>
                Tail(chats[c].participants) = <<last.targetUserId>>
          /\ last.op = "create-group" =>
                Tail(chats[c].participants) = last.participantIds

\* C16 witness: a start-chat or create-group has created a chat with a
\* participant id that no user has.
C16_Witness ==
    /\ Created # {}
    /\ \E c \in Created :
          ~(Range(chats[c].participants) \subseteq DOMAIN users)

\* C17: as the specification states it, the stored socket of every user
\* whose online flag is true is an open connection whose closure is
\* bound to that user, and every new-message, new-chat and user-typing
\* push for a user goes to a connection that is bound to that user.
C17_OnlineHandleOwned ==
    /\ \A u \in DOMAIN users :
          users[u].online =>
            /\ conn[users[u].socketId] = "open"
            /\ currentUserId[users[u].socketId] = u
    /\ \A i \in 1..Len(out) :
          out[i].ev \in {"new-message", "new-chat", "user-typing"}
            => pre.currentUserId[out[i].to] = out[i].for

\* C18: as the specification states it, a user is online whenever the
\* socket stored for the user is an open connection bound to that user;
\* and the disconnect of a connection that is bound to a user and is no
\* longer the socket stored for that user leaves the online flag alone.
C18_ConnectedIsOnline ==
    /\ \A s \in Sockets :
          (/\ conn[s] = "open" /\ currentUserId[s] # Null
           /\ users[currentUserId[s]].socketId = s)
              => users[currentUserId[s]].online
    /\ (/\ last.op = "disconnect" /\ Caller # Null
        /\ pre.users[Caller].socketId # last.sock)
          => users[Caller].online = pre.users[Caller].online

\* the number of pushes named ev the handler emitted for user u
Copies(ev, u) == Cardinality({i \in Emitted(ev) : out[i].for = u})

\* C19: as the specification states it, an accepted send-message emits
\* exactly one new-message for each participant of the chat who is
\* online, and a create-group that creates a chat emits exactly one
\* new-chat for each participant who is online.
C19_OneCopyEach ==
    /\ Accepted =>
          \A u \in OnlineAmong(pre.chats[last.chatId].participants) :
              Copies("new-message", u) = 1
    /\ (last.op = "create-group" /\ Created # {}) =>
          \A c \in Created :
              \A u \in OnlineAmong(chats[c].participants) :
                  Copies("new-chat", u) = 1

\* C20: as the specification states it, the chat a start-chat of an
\* identified caller with target T resolves to, whose log the
\* chat-started reply carries, is a chat of exactly the caller and T,
\* whatever string T is.
C20_ChatIdInjective ==
    (last.op = "start-chat" /\ Caller # Null /\ last.targetUserId # Null)
        => /\ out[1].ev = "chat-started"
           /\ out[1].chatId \in DOMAIN chats
           /\ Includes(chats[out[1].chatId].participants, Caller)
           /\ Range(chats[out[1].chatId].participants)
                 = {Caller, last.targetUserId}

====
